---- MODULE Spec2Model ----
(***************************************************************************)
(* Model of encrypt-excel.js: the command-line driver (main), the three    *)
(* operations (encryptFile, decryptFile, verifyFile) and the probe         *)
(* (isAlreadyEncrypted).  The spreadsheet codec (xlsx-populate), the hash  *)
(* (crypto) and the file system (fs, path) are external collaborators; the *)
(* model gives them the behaviour the script relies on: a document opens   *)
(* exactly with the credential it was written with, serialisation rewrites *)
(* the container, and the rewrite carries a timestamp.                     *)
(***************************************************************************)
EXTENDS Integers, Sequences, FiniteSets, TLC

\* ---------------------------------------------------------------- bounds
MaxStamp == 1       \* serialisation instants 0..MaxStamp

Stamps == 0..MaxStamp

\* ---------------------------------------------------------------- names
\* File names are character sequences so that endsWith / startsWith are
\* computed, not assumed.
XlsxSuffix == <<".", "x", "l", "s", "x">>
LockPrefix == <<"~", "$">>

aXlsx     == <<"a", ".", "x", "l", "s", "x">>
lockAXlsx == <<"~", "$", "a", ".", "x", "l", "s", "x">>
bTxt      == <<"b", ".", "t", "x", "t">>
BXLSX     == <<"B", ".", "X", "L", "S", "X">>
cXlsx     == <<"c", ".", "x", "l", "s", "x">>
dXlsx     == <<"d", ".", "x", "l", "s", "x">>
subName   == <<"s", "u", "b">>
dataName  == <<"d", "a", "t", "a">>
emptyName == <<"e", "m", "p", "t", "y">>
notesTxt  == <<"n", "o", "t", "e", "s", ".", "t", "x", "t">>
goneName  == <<"g", "o", "n", "e">>

\* Paths are sequences of names.
DataDir   == <<dataName>>
SubDir    == <<dataName, subName>>
EmptyDir  == <<emptyName>>
GonePath  == <<goneName>>
NoPath    == <<>>

Dirs == {DataDir, SubDir, EmptyDir}

readdirSync(p) ==
    IF p = DataDir THEN <<aXlsx, lockAXlsx, bTxt, BXLSX, cXlsx, subName>>
    ELSE IF p = SubDir THEN <<dXlsx>>
    ELSE IF p = EmptyDir THEN <<notesTxt>>
    ELSE <<>>

FilePaths ==
    { Append(DataDir, n) : n \in {aXlsx, lockAXlsx, bTxt, BXLSX, cXlsx} }
    \cup {Append(SubDir, dXlsx), Append(EmptyDir, notesTxt)}

existsSync(p) == p \in Dirs \/ p \in FilePaths
isDirectory(p) == p \in Dirs
basename(p) == p[Len(p)]

endsWith(s, suf) ==
    Len(s) >= Len(suf) /\ SubSeq(s, Len(s) - Len(suf) + 1, Len(s)) = suf
startsWith(s, pre) ==
    Len(s) >= Len(pre) /\ SubSeq(s, 1, Len(pre)) = pre

\* ---------------------------------------------------------------- codec
Sheet1 == <<"S", "1">>
SheetD == <<"D">>
Doc1  == [sheets |-> <<Sheet1>>, body |-> 1]
Doc2  == [sheets |-> <<Sheet1, SheetD>>, body |-> 2]
NoDoc == [sheets |-> <<>>, body |-> 0]

\* Bytes of a file or buffer: the document they hold, who laid out the
\* container, when, and the credential that protects them ("" = none).
Corrupt == [valid |-> FALSE, doc |-> NoDoc, writer |-> "none",
            stamp |-> 0, pw |-> ""]
Excel(doc, pw) == [valid |-> TRUE, doc |-> doc, writer |-> "excel",
                   stamp |-> 0, pw |-> pw]

\* XlsxPopulate.fromFileAsync / fromDataAsync: opens exactly with the
\* credential the bytes were written with.
Load(bytes, pw) ==
    IF bytes.valid /\ bytes.pw = pw
    THEN [ok |-> TRUE, doc |-> bytes.doc]
    ELSE [ok |-> FALSE, doc |-> NoDoc]

\* workbook.toFileAsync / outputAsync: always a rebuilt container.
Output(doc, pw, stamp) ==
    [valid |-> TRUE, doc |-> doc, writer |-> "populate",
     stamp |-> stamp, pw |-> pw]

\* buffer.length
Size(bytes) ==
    IF ~bytes.valid THEN 3
    ELSE 100 + 40 * bytes.doc.body + 8 * Len(bytes.doc.sheets)
         + (IF bytes.writer = "excel" THEN 13 ELSE 0)
         + (IF bytes.pw # "" THEN 64 ELSE 0)

PwCode(pw) == IF pw = "" THEN 0 ELSE IF pw = "1234" THEN 1 ELSE 2

\* crypto sha256 digest of the bytes
hashBuffer(bytes) ==
    IF ~bytes.valid THEN 0
    ELSE 1 + (( bytes.doc.body * 131 + bytes.stamp * 17 + PwCode(bytes.pw) * 5
                + (IF bytes.writer = "excel" THEN 3 ELSE 0) ) % 1021)

RECURSIVE join(_)
\* Array.prototype.join(',') over sheet names
join(names) ==
    IF names = <<>> THEN <<>>
    ELSE IF Len(names) = 1 THEN names[1]
    ELSE names[1] \o <<",">> \o join(Tail(names))

Abs(x) == IF x < 0 THEN -x ELSE x

\* ---------------------------------------------------------------- operations
NoReport == [passVsDecrypt |-> FALSE, passthroughHash |-> 0,
             decryptedHash |-> 0, sizeDiff |-> 0, sheetsMatch |-> FALSE,
             verdict |-> "none"]

\* Variant: any file that does not open without a password is reported
\* protected, the supplied password is not tried.
isAlreadyEncryptedAnyPassword(disk, filePath, password) ==
    IF Load(disk[filePath], "").ok THEN "false" ELSE "true"

\* Variant: a file that opens neither way is reported unprotected.
isAlreadyEncryptedLenient(disk, filePath, password) ==
    IF Load(disk[filePath], "").ok THEN "false"
    ELSE IF Load(disk[filePath], password).ok THEN "true"
    ELSE "false"

\* Three outcomes: "false" (opened without password), "true" (opened with
\* the supplied password), "throw" (neither).
isAlreadyEncrypted(disk, filePath, password) ==
    IF Load(disk[filePath], "").ok THEN "false"
    ELSE IF Load(disk[filePath], password).ok THEN "true"
    ELSE "throw"

\* Result of a dispatch: the handler that ran, whether it threw, what it
\* printed (status), what the probe said, the disk it leaves behind, and
\* verify's report.
Result(op, threw, status, probe, disk, report) ==
    [op |-> op, threw |-> threw, status |-> status, probe |-> probe,
     disk |-> disk, report |-> report]

\* Variant: no skip, a protected file is opened with the password and
\* written again.
encryptFileNoSkip(disk, filePath, password, stamp) ==
    LET probe == isAlreadyEncrypted(disk, filePath, password)
        workbook == Load(disk[filePath], IF probe = "true" THEN password ELSE "")
    IN  IF probe = "throw"
        THEN Result("encrypt", TRUE, "error", probe, disk, NoReport)
        ELSE IF ~workbook.ok
        THEN Result("encrypt", TRUE, "error", probe, disk, NoReport)
        ELSE Result("encrypt", FALSE, "completed", probe,
                    [disk EXCEPT ![filePath] =
                        Output(workbook.doc, password, stamp)],
                    NoReport)

encryptFile(disk, filePath, password, stamp) ==
    LET probe == isAlreadyEncrypted(disk, filePath, password)
        workbook == Load(disk[filePath], "")
    IN  IF probe = "throw" THEN Result("encrypt", TRUE, "error", probe, disk, NoReport)
        ELSE IF probe = "true"
        THEN Result("encrypt", FALSE, "skipped", probe, disk, NoReport)
        ELSE IF ~workbook.ok
        THEN Result("encrypt", TRUE, "error", probe, disk, NoReport)
        ELSE Result("encrypt", FALSE, "completed", probe,
                    [disk EXCEPT ![filePath] =
                        Output(workbook.doc, password, stamp)],
                    NoReport)

\* Variant: the password is passed to toFileAsync again.
decryptFileKeepsPassword(disk, filePath, password, stamp) ==
    LET probe == isAlreadyEncrypted(disk, filePath, password)
        workbook == Load(disk[filePath], password)
    IN  IF probe = "throw"
        THEN Result("decrypt", TRUE, "error", probe, disk, NoReport)
        ELSE IF probe = "false"
        THEN Result("decrypt", FALSE, "skipped", probe, disk, NoReport)
        ELSE IF ~workbook.ok
        THEN Result("decrypt", TRUE, "error", probe, disk, NoReport)
        ELSE Result("decrypt", FALSE, "completed", probe,
                    [disk EXCEPT ![filePath] =
                        Output(workbook.doc, password, stamp)],
                    NoReport)

decryptFile(disk, filePath, password, stamp) ==
    LET probe == isAlreadyEncrypted(disk, filePath, password)
        workbook == Load(disk[filePath], password)
    IN  IF probe = "throw" THEN Result("decrypt", TRUE, "error", probe, disk, NoReport)
        ELSE IF probe = "false"
        THEN Result("decrypt", FALSE, "skipped", probe, disk, NoReport)
        ELSE IF ~workbook.ok
        THEN Result("decrypt", TRUE, "error", probe, disk, NoReport)
        ELSE Result("decrypt", FALSE, "completed", probe,
                    [disk EXCEPT ![filePath] = Output(workbook.doc, "", stamp)],
                    NoReport)

\* Variant: the decrypted buffer is written over the file.
verifyFileWritesBack(disk, filePath, password, s1, s2, s3) ==
    LET originalBuffer == disk[filePath]
        wb1 == Load(originalBuffer, "")
        encryptedBuffer == Output(wb1.doc, password, s1)
        wb2 == Load(encryptedBuffer, password)
        decryptedBuffer == Output(wb2.doc, "", s2)
        wb3 == Load(originalBuffer, "")
        passthroughBuffer == Output(wb3.doc, "", s3)
        passthroughHash == hashBuffer(passthroughBuffer)
        decryptedHash == hashBuffer(decryptedBuffer)
        passVsDecrypt == passthroughHash = decryptedHash
        sizeDiff == Abs(Size(originalBuffer) - Size(decryptedBuffer))
        origWb == Load(originalBuffer, "")
        decWb == Load(decryptedBuffer, "")
        sheetsMatch == join(origWb.doc.sheets) = join(decWb.doc.sheets)
    IN  IF ~wb1.ok \/ ~wb2.ok \/ ~wb3.ok \/ ~origWb.ok \/ ~decWb.ok
        THEN Result("verify", TRUE, "error", "none", disk, NoReport)
        ELSE Result("verify", FALSE, "verified", "none",
                    [disk EXCEPT ![filePath] = decryptedBuffer],
                    [passVsDecrypt |-> passVsDecrypt,
                     passthroughHash |-> passthroughHash,
                     decryptedHash |-> decryptedHash,
                     sizeDiff |-> sizeDiff,
                     sheetsMatch |-> sheetsMatch,
                     verdict |-> IF passVsDecrypt THEN "success"
                                 ELSE "caution"])

\* Variant: the verdict also demands equal sizes.
verifyFileSizeVerdict(disk, filePath, password, s1, s2, s3) ==
    LET originalBuffer == disk[filePath]
        wb1 == Load(originalBuffer, "")
        encryptedBuffer == Output(wb1.doc, password, s1)
        wb2 == Load(encryptedBuffer, password)
        decryptedBuffer == Output(wb2.doc, "", s2)
        wb3 == Load(originalBuffer, "")
        passthroughBuffer == Output(wb3.doc, "", s3)
        passthroughHash == hashBuffer(passthroughBuffer)
        decryptedHash == hashBuffer(decryptedBuffer)
        passVsDecrypt == passthroughHash = decryptedHash
        sizeDiff == Abs(Size(originalBuffer) - Size(decryptedBuffer))
        origWb == Load(originalBuffer, "")
        decWb == Load(decryptedBuffer, "")
        sheetsMatch == join(origWb.doc.sheets) = join(decWb.doc.sheets)
    IN  IF ~wb1.ok \/ ~wb2.ok \/ ~wb3.ok \/ ~origWb.ok \/ ~decWb.ok
        THEN Result("verify", TRUE, "error", "none", disk, NoReport)
        ELSE Result("verify", FALSE, "verified", "none", disk,
                    [passVsDecrypt |-> passVsDecrypt,
                     passthroughHash |-> passthroughHash,
                     decryptedHash |-> decryptedHash,
                     sizeDiff |-> sizeDiff,
                     sheetsMatch |-> sheetsMatch,
                     verdict |-> IF passVsDecrypt /\ sizeDiff = 0 THEN "success"
                                 ELSE "caution"])

\* s1, s2, s3: the instants of the three serialisations.
verifyFile(disk, filePath, password, s1, s2, s3) ==
    LET originalBuffer == disk[filePath]
        wb1 == Load(originalBuffer, "")
        encryptedBuffer == Output(wb1.doc, password, s1)
        wb2 == Load(encryptedBuffer, password)
        decryptedBuffer == Output(wb2.doc, "", s2)
        wb3 == Load(originalBuffer, "")
        passthroughBuffer == Output(wb3.doc, "", s3)
        passthroughHash == hashBuffer(passthroughBuffer)
        decryptedHash == hashBuffer(decryptedBuffer)
        passVsDecrypt == passthroughHash = decryptedHash
        sizeDiff == Abs(Size(originalBuffer) - Size(decryptedBuffer))
        origWb == Load(originalBuffer, "")
        decWb == Load(decryptedBuffer, "")
        sheetsMatch == join(origWb.doc.sheets) = join(decWb.doc.sheets)
    IN  IF ~wb1.ok \/ ~wb2.ok \/ ~wb3.ok \/ ~origWb.ok \/ ~decWb.ok
        THEN Result("verify", TRUE, "error", "none", disk, NoReport)
        ELSE Result("verify", FALSE, "verified", "none", disk,
                    [passVsDecrypt |-> passVsDecrypt,
                     passthroughHash |-> passthroughHash,
                     decryptedHash |-> decryptedHash,
                     sizeDiff |-> sizeDiff,
                     sheetsMatch |-> sheetsMatch,
                     verdict |-> IF passVsDecrypt THEN "success"
                                 ELSE "caution"])

\* Variant: a plain else runs verify for every other command.
batchDispatchElseVerify(cmd, disk, file, pw, s1, s2, s3) ==
    IF cmd = "encrypt" THEN encryptFile(disk, file, pw, s1)
    ELSE IF cmd = "decrypt" THEN decryptFile(disk, file, pw, s1)
    ELSE verifyFile(disk, file, pw, s1, s2, s3)

\* The if / else-if chain inside the directory loop: a command that is
\* none of the three runs nothing and falls through to success++.
batchDispatch(cmd, disk, file, pw, s1, s2, s3) ==
    IF cmd = "encrypt" THEN encryptFile(disk, file, pw, s1)
    ELSE IF cmd = "decrypt" THEN decryptFile(disk, file, pw, s1)
    ELSE IF cmd = "verify" THEN verifyFile(disk, file, pw, s1, s2, s3)
    ELSE Result("none", FALSE, "nothing", "none", disk, NoReport)

\* Variant: lock files are not excluded.
RECURSIVE filterNamesKeepLock(_)
filterNamesKeepLock(names) ==
    IF names = <<>> THEN <<>>
    ELSE IF endsWith(Head(names), XlsxSuffix)
         THEN <<Head(names)>> \o filterNamesKeepLock(Tail(names))
         ELSE filterNamesKeepLock(Tail(names))

\* readdirSync(...).filter(...).map(join)
RECURSIVE filterNames(_)
filterNames(names) ==
    IF names = <<>> THEN <<>>
    ELSE IF endsWith(Head(names), XlsxSuffix)
            /\ ~startsWith(Head(names), LockPrefix)
         THEN <<Head(names)>> \o filterNames(Tail(names))
         ELSE filterNames(Tail(names))

candidates(dir) ==
    LET kept == filterNames(readdirSync(dir))
    IN  [i \in 1..Len(kept) |-> Append(dir, kept[i])]

\* ---------------------------------------------------------------- state
VARIABLES
    fs,          \* file path -> bytes on disk
    pc,          \* "ready": no process running; "loop": inside the for loop
    command, password, targetPath,   \* process.argv[2..4] of the current run
    files,       \* candidate list of the current run
    idx,         \* position of the for loop in files
    success, fail,
    exitCode,    \* -1 while running or before the first run, else the status
    attempts,    \* handler invocations of the current run, in order
    trail        \* per file: the last encrypt / decrypt call on it

vars == <<fs, pc, command, password, targetPath, files, idx, success, fail,
          exitCode, attempts, trail>>

Passwords == {"1234", "abcd"}
FileA == Append(DataDir, aXlsx)
FileC == Append(DataDir, cXlsx)
Targets == {DataDir, FileA}

\* Argument vectors: encrypt and decrypt with either password on either
\* target, verify and an unrecognised command on either target, a missing
\* target, a directory without candidates, and one vector for each missing
\* token ("" and <<>> stand for an absent or empty argument).
ArgVectors ==
    ({"encrypt", "decrypt"} \X Passwords \X Targets)
    \cup {<<"verify", "1234", DataDir>>, <<"verify", "abcd", FileA>>,
          <<"compress", "abcd", DataDir>>, <<"compress", "1234", FileA>>,
          <<"encrypt", "1234", GonePath>>, <<"decrypt", "abcd", EmptyDir>>,
          <<"", "1234", DataDir>>, <<"encrypt", "", DataDir>>,
          <<"encrypt", "1234", NoPath>>}

InitialDisks ==
    { [p \in FilePaths |->
         IF p = FileA THEN a
         ELSE IF p = FileC THEN c
         ELSE IF basename(p) \in {BXLSX, dXlsx} THEN Excel(Doc1, "")
         ELSE Corrupt] :
      a \in {Excel(Doc2, ""), Excel(Doc2, "1234"), Excel(Doc2, "abcd"), Corrupt},
      c \in {Excel(Doc1, ""), Excel(Doc1, "abcd"), Corrupt} }

\* What the trail keeps of a call of encryptFile or decryptFile: the
\* handler, its password, what it printed, what the probe said, the file it
\* found (openable?, protected with?, document), and whether the call
\* before it on the same file was encryptFile with the same password on a
\* valid unprotected file.
NoCall == [op |-> "none", pw |-> "", status |-> "none", probe |-> "none",
           valid |-> FALSE, prot |-> "", doc |-> NoDoc,
           afterEncrypt |-> FALSE]

remember(tr, file, pw, r, before) ==
    IF r.op \notin {"encrypt", "decrypt"} THEN tr
    ELSE [tr EXCEPT ![file] =
            [op |-> r.op, pw |-> pw, status |-> r.status,
             probe |-> r.probe, valid |-> before.valid,
             prot |-> before.pw, doc |-> before.doc,
             afterEncrypt |-> /\ tr[file].op = "encrypt"
                              /\ tr[file].pw = pw
                              /\ tr[file].valid
                              /\ tr[file].prot = ""]]

Init ==
    /\ fs \in InitialDisks
    /\ pc = "ready"
    /\ command = "" /\ password = "" /\ targetPath = NoPath
    /\ files = <<>> /\ idx = 0 /\ success = 0 /\ fail = 0
    /\ exitCode = -1
    /\ attempts = <<>>
    /\ trail = [p \in FilePaths |-> NoCall]

Attempt(file, r) ==
    [file |-> file, op |-> r.op, threw |-> r.threw, status |-> r.status,
     probe |-> r.probe, report |-> r.report]

\* Instants drawn for one handler: verify serialises three times, one
\* after the other, encrypt and decrypt once.
StampChoices(cmd) ==
    IF cmd = "verify"
    THEN { s \in Stamps \X Stamps \X Stamps : s[1] <= s[2] /\ s[2] <= s[3] }
    ELSE IF cmd \in {"encrypt", "decrypt"} THEN Stamps \X {0} \X {0}
    ELSE {<<0, 0, 0>>}

start(cmd, pw, tgt) ==
    /\ pc = "ready"
    /\ command' = cmd /\ password' = pw /\ targetPath' = tgt

\* lines 29-35: a missing or empty token prints the usage and exits 1
UsageError(cmd, pw, tgt) ==
    /\ start(cmd, pw, tgt)
    /\ cmd = "" \/ pw = "" \/ tgt = NoPath
    /\ exitCode' = 1
    /\ files' = <<>> /\ idx' = 0 /\ success' = 0 /\ fail' = 0
    /\ attempts' = <<>>
    /\ UNCHANGED <<fs, pc, trail>>

\* lines 39-42
NotFound(cmd, pw, tgt) ==
    /\ start(cmd, pw, tgt)
    /\ ~(cmd = "" \/ pw = "" \/ tgt = NoPath)
    /\ ~existsSync(tgt)
    /\ exitCode' = 1
    /\ files' = <<>> /\ idx' = 0 /\ success' = 0 /\ fail' = 0
    /\ attempts' = <<>>
    /\ UNCHANGED <<fs, pc, trail>>

\* lines 46-55: directory without candidates
NoCandidates(cmd, pw, tgt) ==
    /\ start(cmd, pw, tgt)
    /\ ~(cmd = "" \/ pw = "" \/ tgt = NoPath)
    /\ existsSync(tgt) /\ isDirectory(tgt)
    /\ Len(candidates(tgt)) = 0
    /\ exitCode' = 0
    /\ files' = <<>> /\ idx' = 0 /\ success' = 0 /\ fail' = 0
    /\ attempts' = <<>>
    /\ UNCHANGED <<fs, pc, trail>>

\* lines 46-59: directory with candidates, up to the head of the loop
EnterBatch(cmd, pw, tgt) ==
    /\ start(cmd, pw, tgt)
    /\ ~(cmd = "" \/ pw = "" \/ tgt = NoPath)
    /\ existsSync(tgt) /\ isDirectory(tgt)
    /\ Len(candidates(tgt)) # 0
    /\ files' = candidates(tgt)
    /\ idx' = 1 /\ success' = 0 /\ fail' = 0
    /\ pc' = "loop"
    /\ exitCode' = -1
    /\ attempts' = <<>>
    /\ UNCHANGED <<fs, trail>>

\* Variant: the first failure ends the loop.
BatchStepAbort(s1, s2, s3) ==
    /\ pc = "loop"
    /\ idx <= Len(files)
    /\ LET file == files[idx]
           r == batchDispatch(command, fs, file, password, s1, s2, s3)
       IN  /\ fs' = r.disk
           /\ success' = IF r.threw THEN success ELSE success + 1
           /\ fail' = IF r.threw THEN fail + 1 ELSE fail
           /\ attempts' = Append(attempts, Attempt(file, r))
           /\ trail' = remember(trail, file, password, r, fs[file])
           /\ idx' = IF r.threw THEN Len(files) + 1 ELSE idx + 1
    /\ UNCHANGED <<pc, command, password, targetPath, files, exitCode>>

\* lines 60-74: one iteration of the loop, try / catch included
BatchStep(s1, s2, s3) ==
    /\ pc = "loop"
    /\ idx <= Len(files)
    /\ LET file == files[idx]
           r == batchDispatch(command, fs, file, password, s1, s2, s3)
       IN  /\ fs' = r.disk
           /\ success' = IF r.threw THEN success ELSE success + 1
           /\ fail' = IF r.threw THEN fail + 1 ELSE fail
           /\ attempts' = Append(attempts, Attempt(file, r))
           /\ trail' = remember(trail, file, password, r, fs[file])
    /\ idx' = idx + 1
    /\ UNCHANGED <<pc, command, password, targetPath, files, exitCode>>

\* Variant: a batch with failures exits 1.
BatchDoneFailStatus ==
    /\ pc = "loop"
    /\ idx > Len(files)
    /\ pc' = "ready"
    /\ exitCode' = IF fail > 0 THEN 1 ELSE 0
    /\ UNCHANGED <<fs, command, password, targetPath, files, idx, success,
                   fail, attempts, trail>>

\* line 76 and the return of main: the summary, then a normal exit
BatchDone ==
    /\ pc = "loop"
    /\ idx > Len(files)
    /\ pc' = "ready"
    /\ exitCode' = 0
    /\ UNCHANGED <<fs, command, password, targetPath, files, idx, success,
                   fail, attempts, trail>>

\* lines 78-84 and 226-229: one file, a known command; an error reaches
\* main().catch and exits 1
SingleFile(cmd, pw, tgt, s1, s2, s3) ==
    /\ start(cmd, pw, tgt)
    /\ ~(cmd = "" \/ pw = "" \/ tgt = NoPath)
    /\ existsSync(tgt) /\ ~isDirectory(tgt)
    /\ cmd \in {"encrypt", "decrypt", "verify"}
    /\ LET r == IF cmd = "encrypt" THEN encryptFile(fs, tgt, pw, s1)
                ELSE IF cmd = "decrypt" THEN decryptFile(fs, tgt, pw, s1)
                ELSE verifyFile(fs, tgt, pw, s1, s2, s3)
       IN  /\ fs' = r.disk
           /\ exitCode' = IF r.threw THEN 1 ELSE 0
           /\ attempts' = <<Attempt(tgt, r)>>
           /\ trail' = remember(trail, tgt, pw, r, fs[tgt])
    /\ files' = <<>> /\ idx' = 0 /\ success' = 0 /\ fail' = 0
    /\ UNCHANGED pc

\* lines 85-88
UnknownCommand(cmd, pw, tgt) ==
    /\ start(cmd, pw, tgt)
    /\ ~(cmd = "" \/ pw = "" \/ tgt = NoPath)
    /\ existsSync(tgt) /\ ~isDirectory(tgt)
    /\ cmd \notin {"encrypt", "decrypt", "verify"}
    /\ exitCode' = 1
    /\ files' = <<>> /\ idx' = 0 /\ success' = 0 /\ fail' = 0
    /\ attempts' = <<>>
    /\ UNCHANGED <<fs, pc, trail>>

Next ==
    \/ \E v \in ArgVectors : UsageError(v[1], v[2], v[3])
    \/ \E v \in ArgVectors : NotFound(v[1], v[2], v[3])
    \/ \E v \in ArgVectors : NoCandidates(v[1], v[2], v[3])
    \/ \E v \in ArgVectors : EnterBatch(v[1], v[2], v[3])
    \/ \E s \in StampChoices(command) : BatchStep(s[1], s[2], s[3])
    \/ BatchDone
    \/ \E v \in ArgVectors : \E s \in StampChoices(v[1]) :
            SingleFile(v[1], v[2], v[3], s[1], s[2], s[3])
    \/ \E v \in ArgVectors : UnknownCommand(v[1], v[2], v[3])

Spec == Init /\ [][Next]_vars

\* ---------------------------------------------------------------- properties
Range(seq) == { seq[i] : i \in 1..Len(seq) }
Known == {"encrypt", "decrypt", "verify"}
ArgsComplete == command # "" /\ password # "" /\ targetPath # NoPath
Exited == pc = "ready" /\ exitCode # -1
BatchEnded == Exited /\ ArgsComplete /\ isDirectory(targetPath) /\ Len(files) > 0
InBatch == pc = "loop" \/ BatchEnded
Raised == { i \in 1..Len(attempts) : attempts[i].threw }

\* The step invokes the handler for op with password pw on file f: an
\* iteration of the loop, or a single-file run.
IsCall(f, op, pw) ==
    IF pc = "loop"
    THEN /\ idx <= Len(files) /\ idx' = idx + 1
         /\ files[idx] = f /\ command = op /\ password = pw
    ELSE /\ pc' = "ready"
         /\ command' = op /\ password' = pw /\ targetPath' = f
         /\ f \in FilePaths

\* The file a step can call a handler on.
CallFiles ==
    IF pc = "loop" THEN (IF idx <= Len(files) THEN {files[idx]} ELSE {})
    ELSE {targetPath'} \cap FilePaths

CountedSuccess ==
    IF pc = "loop" THEN success' = success + 1 /\ fail' = fail
    ELSE exitCode' = 0

CountedFailure ==
    IF pc = "loop" THEN fail' = fail + 1 /\ success' = success /\ exitCode' = -1
    ELSE exitCode' = 1

\* C1: in directory mode every candidate is attempted exactly once, in
\* listing order, whatever failed before; fail is the number of attempts
\* that raised, success the rest, and at the end success + fail = N.
C1_BatchAttemptsAll ==
    /\ \A i, j \in 1..Len(files) : files[i] = files[j] => i = j
    /\ pc = "loop" => Len(attempts) = idx - 1 /\ idx <= Len(files) + 1
    /\ InBatch =>
          /\ \A i \in 1..Len(attempts) :
                /\ attempts[i].file = files[i]
                /\ command \in Known => attempts[i].op = command
          /\ fail = Cardinality(Raised)
          /\ success = Len(attempts) - Cardinality(Raised)
    /\ BatchEnded => Len(attempts) = Len(files) /\ success + fail = Len(files)

\* A batch whose first file failed and whose second succeeded.
C1_Witness ==
    /\ BatchEnded /\ Len(files) = 2
    /\ attempts[1].threw /\ ~attempts[2].threw
    /\ fail = 1 /\ success = 1

C2_Step ==
    \A f \in CallFiles : \A P \in Passwords :
        /\ IsCall(f, "encrypt", P) /\ fs[f].valid /\ fs[f].pw = P
              => /\ attempts'[Len(attempts')].status = "skipped"
                 /\ ~attempts'[Len(attempts')].threw
                 /\ CountedSuccess
                 /\ fs' = fs
        /\ IsCall(f, "decrypt", P) /\ fs[f].valid /\ fs[f].pw = ""
              => /\ attempts'[Len(attempts')].status = "skipped"
                 /\ ~attempts'[Len(attempts')].threw
                 /\ CountedSuccess
                 /\ fs' = fs
        /\ \A op \in {"encrypt", "decrypt"} :
              IsCall(f, op, P) /\ trail[f].op = op /\ trail[f].pw = P
                 => fs' = fs

\* C2: encryptFile with P on a file protected with P, and decryptFile on an
\* unprotected file, return normally, print "skipped", count as success
\* and leave the disk as it was; a handler called again with the same
\* password right after itself changes nothing.
C2_Idempotent == [][C2_Step]_vars

\* encrypt completed, then encrypt with the same password skipped.
C2_Witness ==
    \E f \in FilePaths :
        /\ trail[f].op = "encrypt" /\ trail[f].afterEncrypt
        /\ trail[f].status = "skipped"
        /\ fs[f].writer = "populate" /\ fs[f].pw = trail[f].pw

\* C3: encryptFile with P on a valid unprotected file leaves a file that
\* opens with P and not without a password; a following decryptFile with P
\* leaves a file that opens without a password, holds the document of the
\* original and re-serialises to the same hash as the original does.
C3_RoundTrip ==
    \A f \in FilePaths :
        LET t == trail[f] IN
        /\ (t.op = "encrypt" /\ t.valid /\ t.prot = "")
              => /\ t.status = "completed"
                 /\ ~Load(fs[f], "").ok
                 /\ Load(fs[f], t.pw).ok
                 /\ Load(fs[f], t.pw).doc = t.doc
        /\ (t.op = "decrypt" /\ t.afterEncrypt)
              => /\ t.status = "completed"
                 /\ t.prot = t.pw
                 /\ Load(fs[f], "").ok
                 /\ Load(fs[f], "").doc = Load(Output(t.doc, "", 0), "").doc
                 /\ \A s \in Stamps :
                       hashBuffer(Output(Load(fs[f], "").doc, "", s))
                         = hashBuffer(Output(t.doc, "", s))

\* encrypt of an unprotected file followed by decrypt, same password.
C3_Witness ==
    \E f \in FilePaths :
        /\ trail[f].op = "decrypt" /\ trail[f].afterEncrypt
        /\ trail[f].status = "completed"
        /\ fs[f].writer = "populate" /\ fs[f].pw = ""

\* C4 as stated: a protected document makes the probe answer "true"
\* whatever password is supplied, an unprotected one "false".
C4_ProbeIgnoresPassword ==
    \A f \in FilePaths :
        LET c == trail[f] IN
        (c.op # "none" /\ c.valid) =>
            IF c.prot # "" THEN c.probe = "true" ELSE c.probe = "false"

\* C4 (amended): on a document protected with P the probe answers "true"
\* when given P and raises the unable-to-open error when given any other
\* password; on an unprotected document it answers "false" whatever
\* password is supplied.
C4_ProbeChecksPassword ==
    \A f \in FilePaths :
        LET c == trail[f] IN
        (c.op # "none" /\ c.valid) =>
            IF c.prot = "" THEN c.probe = "false"
            ELSE IF c.pw = c.prot THEN c.probe = "true"
            ELSE c.probe = "throw"

\* One file probed with its own password, the other with a different one.
C4_Witness ==
    \E f, g \in FilePaths :
        /\ trail[f].valid /\ trail[f].prot # ""
        /\ trail[f].pw = trail[f].prot /\ trail[f].probe = "true"
        /\ trail[g].valid /\ trail[g].prot # ""
        /\ trail[g].pw # trail[g].prot /\ trail[g].probe = "throw"

\* C5 as stated: in directory mode a command other than encrypt and
\* decrypt is not rejected and verify runs on every candidate.
C5_OtherCommandIsVerify ==
    (InBatch /\ command \notin {"encrypt", "decrypt"}) =>
        /\ exitCode # 1
        /\ \A i \in 1..Len(attempts) : attempts[i].op = "verify"

\* C5 (amended): in directory mode a command other than encrypt and decrypt
\* is not rejected; verify runs on every candidate when the command is
\* "verify", and for any other command no handler runs, no file changes
\* and every candidate is counted as a success.
C5_OtherCommandRunsNothing ==
    (InBatch /\ command \notin {"encrypt", "decrypt"}) =>
        /\ exitCode # 1
        /\ BatchEnded => exitCode = 0 /\ Len(attempts) = Len(files)
        /\ \A i \in 1..Len(attempts) :
              IF command = "verify" THEN attempts[i].op = "verify"
              ELSE /\ attempts[i].op = "none"
                   /\ attempts[i].status = "nothing"
                   /\ ~attempts[i].threw
        /\ command # "verify" => success = Len(attempts) /\ fail = 0

\* A finished batch under an unrecognised command.
C5_Witness ==
    /\ BatchEnded /\ command = "compress"
    /\ success = Len(files) /\ Len(files) = 2

C6_Step ==
    /\ \A p \in { q \in FilePaths : fs' # fs } :
          fs'[p] # fs[p] =>
            /\ attempts' # <<>>
            /\ LET a == attempts'[Len(attempts')] IN
                 /\ a.file = p
                 /\ a.status = "completed"
                 /\ \/ a.op = "encrypt" /\ a.probe = "false"
                    \/ a.op = "decrypt" /\ a.probe = "true"
                 /\ IsCall(p, a.op, password')
                 /\ \A q \in FilePaths \ {p} : fs'[q] = fs[q]
    /\ command' = "verify" => fs' = fs
    /\ (pc = "ready" /\ exitCode' = 1) => fs' = fs
    /\ (attempts' # <<>> /\ attempts'[Len(attempts')].status # "completed")
          => fs' = fs

\* C6: a file changes only in a step that runs encrypt with probe
\* "unprotected" or decrypt with probe "protected" on that very file; verify
\* runs, usage errors, skipped operations and failed probes change nothing.
C6_WritesOnlyByCompletedOps == [][C6_Step]_vars

\* A batch that rewrote one file and skipped the other.
C6_Witness ==
    /\ BatchEnded /\ Len(attempts) = 2
    /\ attempts[1].status = "completed" /\ attempts[2].status = "skipped"
    /\ fs[FileA].writer = "populate" /\ fs[FileC].writer = "excel"

\* C7: exit status is non-zero exactly for a missing argument, a missing
\* target, an unknown command on a single file, or an error raised on a
\* single file; every directory-mode run exits 0.
C7_ExitStatus ==
    /\ pc = "loop" => exitCode = -1
    /\ Exited =>
          /\ exitCode \in {0, 1}
          /\ exitCode # 0 <=>
                \/ ~ArgsComplete
                \/ ~existsSync(targetPath)
                \/ /\ ~isDirectory(targetPath)
                   /\ \/ command \notin Known
                      \/ attempts # <<>> /\ attempts[1].threw
          /\ (ArgsComplete /\ isDirectory(targetPath)) => exitCode = 0

\* A batch in which every file failed, and the process exited 0.
C7_Witness ==
    /\ BatchEnded /\ fail = Len(files) /\ success = 0 /\ exitCode = 0

IsCandidateName(n) ==
    /\ Len(n) >= 5
    /\ n[Len(n) - 4] = "." /\ n[Len(n) - 3] = "x" /\ n[Len(n) - 2] = "l"
    /\ n[Len(n) - 1] = "s" /\ n[Len(n)] = "x"
    /\ ~(Len(n) >= 2 /\ n[1] = "~" /\ n[2] = "$")

\* C8: the candidates are the immediate children of the target whose name
\* ends in ".xlsx" and does not start with "~$"; no handler runs on
\* anything else.
C8_CandidateFilter ==
    InBatch =>
        /\ Range(files) =
              { Append(targetPath, n) :
                  n \in { m \in Range(readdirSync(targetPath)) :
                            IsCandidateName(m) } }
        /\ targetPath = DataDir => files = <<FileA, FileC>>
        /\ \A i \in 1..Len(attempts) : attempts[i].file \in Range(files)
        /\ \A p \in FilePaths \ {FileA, FileC} : trail[p].op = "none"

\* The loop over the directory holding a.xlsx, ~$a.xlsx, b.txt, B.XLSX.
C8_Witness ==
    /\ BatchEnded /\ targetPath = DataDir /\ command = "encrypt"
    /\ Len(attempts) = 2 /\ attempts[1].file = FileA

C9_Step ==
    \A f \in CallFiles : \A P \in Passwords : \A op \in {"encrypt", "decrypt"} :
        (IsCall(f, op, P) /\ ~Load(fs[f], "").ok /\ ~Load(fs[f], P).ok)
          => /\ attempts'[Len(attempts')].probe = "throw"
             /\ attempts'[Len(attempts')].threw
             /\ attempts'[Len(attempts')].status = "error"
             /\ CountedFailure
             /\ fs' = fs

\* C9: when the file opens neither without a password nor with the
\* supplied one, the probe raises; encryptFile and decryptFile fail without
\* printing skipped or completed; the batch counts a failure, a single-file
\* run exits non-zero.
C9_UnopenableFails == [][C9_Step]_vars

\* A batch that met a file protected with another password.
C9_Witness ==
    /\ pc = "loop" /\ Len(attempts) >= 1
    /\ attempts[1].probe = "throw" /\ attempts[1].threw
    /\ fs[attempts[1].file].valid /\ fs[attempts[1].file].pw \notin {"", password}
    /\ fail = 1

\* C10: verify's verdict is success exactly when the passthrough hash equals
\* the decrypted hash, whatever the size difference and the sheet
\* comparison say; a mismatch returns normally and the batch counts it as
\* a success, only a raised error counts as a failure.
C10_VerdictByHash ==
    /\ \A i \in 1..Len(attempts) :
          attempts[i].op = "verify" =>
            LET a == attempts[i] IN
            IF a.threw THEN a.report.verdict = "none" /\ a.status = "error"
            ELSE /\ a.status = "verified"
                 /\ a.report.verdict \in {"success", "caution"}
                 /\ a.report.verdict = "success" <=>
                       a.report.passthroughHash = a.report.decryptedHash
    /\ (InBatch /\ command = "verify") =>
          /\ success = Cardinality({ i \in 1..Len(attempts) :
                                       ~attempts[i].threw })
          /\ fail = Cardinality(Raised)

\* A verify batch: one mismatch verdict (counted as success) and one success
\* verdict with a non-zero size difference.
C10_Witness ==
    /\ BatchEnded /\ command = "verify" /\ success = 2 /\ fail = 0
    /\ attempts[1].report.verdict = "caution"
    /\ attempts[2].report.verdict = "success"
    /\ attempts[2].report.sizeDiff # 0

====
